---------------------------- MODULE Spec2Model ----------------------------
(***************************************************************************)
(* A model of pandas_alive/charts.py: BaseChart, BarChart, LineChart and   *)
(* animate_multiple_plots.                                                 *)
(*                                                                         *)
(* A DataFrame is a sequence of rows, each row a sequence of integer       *)
(* cells; column j of the frame has the name j and a dtype flag.  Frames   *)
(* derived by prepare_data hold rationals <<numerator, denominator>>, with *)
(* denominator 0 standing for NaN.  Python positions are 0-based; the      *)
(* sequences below are 1-based, so row i of a frame is data[i + 1].        *)
(* The plotting library is modelled by the lists it keeps on an axis:      *)
(* ax.containers and ax.texts, and the data limit set by plot_bars.        *)
(* Figure sizing (calculate_new_figsize) is taken as one probe render;     *)
(* dpi, fps, the encoder and LineChart's plotting are left out.            *)
(***************************************************************************)
EXTENDS Integers, Sequences, FiniteSets

\* ------------------------------------------------------------------ bounds
MaxRows == 3
MaxCols == 3
MaxSteps == 2
MaxContainers == 2
MaxWide == 5
MaxColors == 3
MaxPlots == 3
MaxFrames == 4

VARIABLES
    kind, df, dtypes, use_index, steps_per_period, fig, orientation, sort,
    n_bars, label_bars, cmap,
    df_values, df_rank, orig_index, bar_colors, label_pos, data_cols, ax,
    phase, error, probed,
    containers, texts, lim, last_i, period_idx, last_call,
    driver, pos,
    plots, mpc, frames_arg, next_frame, ticks, rendered

cfgVars == <<kind, df, dtypes, use_index, steps_per_period, fig, orientation,
             sort, n_bars, label_bars, cmap>>
derivedVars == <<df_values, df_rank, orig_index, bar_colors, label_pos,
                 data_cols, ax, phase, error, probed>>
axisVars == <<containers, texts, lim, last_i, period_idx, last_call>>
driverVars == <<driver, pos>>
multiVars == <<plots, mpc, frames_arg, next_frame, ticks, rendered>>
vars == <<cfgVars, derivedVars, axisVars, driverVars, multiVars>>

\* ------------------------------------------------------- numbers and lists
NaN == <<0, 0>>
Rat(n) == <<n, 1>>
IsNaN(x) == x[2] = 0
RatEq(x, y) == x[1] * y[2] = y[1] * x[2]
RatLT(x, y) == x[1] * y[2] < y[1] * x[2]
RatLE(x, y) == x[1] * y[2] <= y[1] * x[2]
RatMul(x, y) == <<x[1] * y[1], x[2] * y[2]>>

\* The point k/n of the way from a to b.
Lerp(a, b, k, n) ==
    <<a[1] * b[2] * n + (b[1] * a[2] - a[1] * b[2]) * k, a[2] * b[2] * n>>

\* Rounding to the nearest integer, ties to even, as the format spec .0f does.
Round0(x) ==
    LET q == x[1] \div x[2]
        r == x[1] - q * x[2]
    IN  IF 2 * r < x[2] THEN q
        ELSE IF 2 * r > x[2] THEN q + 1
        ELSE IF q % 2 = 0 THEN q ELSE q + 1

Str(x) == <<"str", x>>
Fmt(x) == Str(Round0(x))

SetMax(S) == CHOOSE m \in S : \A x \in S : x <= m
SetMin(S) == CHOOSE m \in S : \A x \in S : m <= x
IntMin(a, b) == IF a <= b THEN a ELSE b

RemoveAt(s, k) == [p \in 1..(Len(s) - 1) |-> IF p < k THEN s[p] ELSE s[p + 1]]

\* s[:n] of a Python list.
Prefix(s, n) == SubSeq(s, 1, IntMin(n, Len(s)))

RECURSIVE Repeat(_, _)
\* s * times of a Python list.
Repeat(s, times) == IF times <= 0 THEN <<>> ELSE s \o Repeat(s, times - 1)

RECURSIVE Select(_, _)
\* a[mask] of an array: the entries whose mask is TRUE, in order.
Select(s, mask) ==
    IF Len(s) = 0 THEN <<>>
    ELSE LET n == Len(s)
             rest == Select(SubSeq(s, 1, n - 1), SubSeq(mask, 1, n - 1))
         IN  IF mask[n] THEN Append(rest, s[n]) ELSE rest

NCols(table) == Len(table[1])

\* ------------------------------------------------------------- palette
DARK24 == [k \in 1..24 |-> k - 1]

\* ------------------------------------------------------ pandas operations
RECURSIVE SortDescending(_, _)
\* The columns of a row ordered by descending value; among equal values the
\* column that appears first comes first.
SortDescending(row, remaining) ==
    IF remaining = {} THEN <<>>
    ELSE LET top == SetMax({row[j] : j \in remaining})
             best == SetMin({j \in remaining : row[j] = top})
         IN  <<best>> \o SortDescending(row, remaining \ {best})

\* DataFrame.rank(axis=1, method="first", ascending=False) on one row.
RankRow(row) ==
    LET order == SortDescending(row, DOMAIN row)
    IN  [j \in DOMAIN row |-> CHOOSE p \in DOMAIN order : order[p] = j]

Rank(frame) ==
    [index |-> frame.index, data |-> [p \in DOMAIN frame.data |-> RankRow(frame.data[p])]]

\* clip that leaves the frame as it is.
ClipNothing(frame, u) == frame

\* DataFrame.clip(upper=u).
Clip(frame, u) ==
    [index |-> frame.index,
     data |-> [p \in DOMAIN frame.data |->
                 [j \in DOMAIN frame.data[p] |-> IntMin(frame.data[p][j], u)]]]

\* DataFrame.reset_index(drop=True): the rows under the index 0, 1, ...
ResetIndex(table) == [index |-> [p \in DOMAIN table |-> p - 1], data |-> table]

\* DataFrame.reindex(new_index): rows of labels the frame lacks are NaN.
Reindex(frame, new_index) ==
    [index |-> new_index,
     data |-> [p \in DOMAIN new_index |->
                 LET hit == {q \in DOMAIN frame.index : frame.index[q] = new_index[p]}
                 IN  IF hit = {}
                     THEN [j \in DOMAIN frame.data[1] |-> NaN]
                     ELSE [j \in DOMAIN frame.data[1] |->
                             Rat(frame.data[SetMin(hit)][j])]]]

\* interpolate that repeats the last valid row instead.
InterpolatePad(frame) ==
    [index |-> frame.index,
     data |-> [p \in DOMAIN frame.data |->
                 [j \in DOMAIN frame.data[p] |->
                    LET before == {q \in 1..p : ~IsNaN(frame.data[q][j])}
                    IN  IF before = {} THEN NaN ELSE frame.data[SetMax(before)][j]]]]

\* DataFrame.interpolate(): linear, per column, equally spaced rows; NaN after
\* the last valid row repeats it, NaN before the first valid row stays.
Interpolate(frame) ==
    [index |-> frame.index,
     data |-> [p \in DOMAIN frame.data |->
                 [j \in DOMAIN frame.data[p] |->
                    IF ~IsNaN(frame.data[p][j]) THEN frame.data[p][j]
                    ELSE LET before == {q \in 1..(p - 1) : ~IsNaN(frame.data[q][j])}
                             after == {q \in (p + 1)..Len(frame.data) :
                                         ~IsNaN(frame.data[q][j])}
                         IN  IF before = {} THEN NaN
                             ELSE IF after = {} THEN frame.data[SetMax(before)][j]
                             ELSE Lerp(frame.data[SetMax(before)][j],
                                       frame.data[SetMin(after)][j],
                                       p - SetMax(before),
                                       SetMin(after) - SetMax(before))]]]

\* ------------------------------------------------------------ BaseChart
\* BaseChart.validate_params and BarChart.validate_params: the error raised,
\* or "none".
BaseValidateParams(f) ==
    IF f # "None" /\ f # "Figure" THEN "TypeError" ELSE "none"

ValidateParams(f, srt, orient) ==
    IF BaseValidateParams(f) # "none" THEN BaseValidateParams(f)
    ELSE IF srt \notin {"asc", "desc"} THEN "ValueError"
    ELSE IF orient \notin {"h", "v"} THEN "ValueError"
    ELSE "none"

\* BaseChart.get_data_cols: the names of the numeric columns, as strings.
GetDataCols(table, types) ==
    LET cols == [j \in 1..NCols(table) |-> j]
        numeric == Select(cols, types)
    IN  IF Len(numeric) = 0
        THEN [error |-> "NoNumericColumns", cols |-> <<>>]
        ELSE [error |-> "none", cols |-> [p \in DOMAIN numeric |-> Str(numeric[p])]]

\* BaseChart.get_colors: the list of colours a cmap stands for.  Colour k of
\* a palette of n colours is the number k, 0 <= k < n.
BaseGetColors(cm) ==
    IF cm.type = "dark24" THEN [error |-> "none", colors |-> DARK24]
    ELSE IF cm.type \in {"Colormap", "list", "ndarray"}
    THEN [error |-> "none", colors |-> [k \in 1..cm.n |-> k - 1]]
    ELSE [error |-> "TypeError", colors |-> <<>>]

\* ------------------------------------------------------------- BarChart
\* get_colors repeating the palette once too few.
GetColorsShort(cm, table) ==
    LET base == BaseGetColors(cm)
        n == Len(base.colors)
        ncols == NCols(table)
    IN  IF base.error # "none" THEN base
        ELSE IF ncols > n /\ n = 0
        THEN [error |-> "ZeroDivisionError", colors |-> <<>>]
        ELSE LET bar_colors_ == IF ncols > n
                                THEN Repeat(base.colors, ncols \div n)
                                ELSE base.colors
             IN  [error |-> "none", colors |-> Prefix(bar_colors_, ncols)]

\* BarChart.get_colors.
GetColors(cm, table) ==
    LET base == BaseGetColors(cm)
        n == Len(base.colors)
        ncols == NCols(table)
    IN  IF base.error # "none" THEN base
        ELSE IF ncols > n /\ n = 0
        THEN [error |-> "ZeroDivisionError", colors |-> <<>>]
        ELSE LET bar_colors_ == IF ncols > n
                                THEN Repeat(base.colors, (ncols \div n) + 1)
                                ELSE base.colors
             IN  [error |-> "none", colors |-> Prefix(bar_colors_, ncols)]

\* BarChart.get_label_position, in tenths and hundredths.
GetLabelPosition(srt, orient) ==
    IF orient = "h"
    THEN <<<<6, 10>>, IF srt = "desc" THEN <<25, 100>> ELSE <<8, 10>>>>
    ELSE <<IF srt = "desc" THEN <<7, 10>> ELSE <<1, 10>>, <<8, 10>>>>

\* Inversion decided by the sort order alone.
InvertedBySort(srt, orient) == srt = "desc"

\* The condition under which prepare_data inverts the ranks.
Inverted(srt, orient) ==
    (srt = "desc" /\ orient = "h") \/ (srt = "asc" /\ orient = "v")

\* BarChart.prepare_data.
PrepareData(table, steps, nbars, srt, orient) ==
    LET reset == ResetIndex(table)
        values == [reset EXCEPT !.index = [p \in DOMAIN reset.index |->
                                             reset.index[p] * steps]]
        ranked == Clip(Rank(values), nbars + 1)
        rank == IF Inverted(srt, orient)
                THEN [ranked EXCEPT !.data =
                        [p \in DOMAIN ranked.data |->
                           [j \in DOMAIN ranked.data[p] |->
                              nbars + 1 - ranked.data[p][j]]]]
                ELSE ranked
        top == SetMax({values.index[p] : p \in DOMAIN values.index})
        new_index == [p \in 1..(top + 1) |-> p - 1]
    IN  [values |-> Interpolate(Reindex(values, new_index)),
         rank |-> Interpolate(Reindex(rank, new_index))]

\* BarChart.get_frames, as the set of frame numbers.
GetFrames == 0..(Len(df_values.data) - 1)

\* A mask that lets the clipped rank through.
TopFiltClosed(bar_location, nbars) ==
    [j \in DOMAIN bar_location |->
       RatLT(Rat(0), bar_location[j]) /\ RatLE(bar_location[j], Rat(nbars + 1))]

\* The mask plot_bars draws by.
TopFilt(bar_location, nbars) ==
    [j \in DOMAIN bar_location |->
       RatLT(Rat(0), bar_location[j]) /\ RatLT(bar_location[j], Rat(nbars + 1))]

\* The bars plot_bars(i) hands to ax.barh / ax.bar: one container.
Bars(i) ==
    LET bar_location == df_rank.data[i + 1]
        top_filt == TopFilt(bar_location, n_bars)
        all == [j \in DOMAIN bar_location |->
                  [col |-> j, location |-> bar_location[j],
                   length |-> df_values.data[i + 1][j], color |-> bar_colors[j]]]
    IN  Select(all, top_filt)

RECURSIVE RatMax(_)
RatMax(s) ==
    IF Len(s) = 1 THEN s[1]
    ELSE LET m == RatMax(Tail(s)) IN IF RatLT(s[1], m) THEN m ELSE s[1]

\* The upper data limit plot_bars sets.
Limit(bars, orient) ==
    RatMul(RatMax([p \in DOMAIN bars |-> bars[p].length]),
           IF orient = "h" THEN <<11, 10>> ELSE <<116, 100>>)

\* A period label drawn anew on every frame.
PeriodTextAnew(txts, val) == <<[site |-> "period", s |-> val]>> \o txts

\* The period label part of plot_bars: ax.texts afterwards.
PeriodText(txts, val) ==
    IF Len(txts) = 0
    THEN <<[site |-> "period", s |-> val]>>
    ELSE [txts EXCEPT ![1].s = val]

\* The bar label part of plot_bars: ax.texts afterwards.
BarTexts(txts, bars, keep) ==
    Prefix(txts, keep) \o [p \in DOMAIN bars |-> [site |-> "bar", s |-> Fmt(bars[p].length)]]

\* ax.texts after plot_bars(i).
PlotTexts(txts, i) ==
    LET t1 == IF use_index
              THEN PeriodText(txts, orig_index[(i \div steps_per_period) + 1])
              ELSE txts
    IN  IF label_bars
        THEN BarTexts(t1, Bars(i), IF use_index THEN 1 ELSE 0)
        ELSE t1

RECURSIVE RemoveIterating(_, _)
\* for bar in ax.containers: bar.remove() -- the list shrinks under the loop,
\* whose position k advances all the same.
RemoveIterating(list, k) ==
    IF k > Len(list) THEN list ELSE RemoveIterating(RemoveAt(list, k), k + 1)

\* BarChart.plot_bars(i), on an axis holding the containers cs.
PlotBars(cs, i) ==
    /\ containers' = Append(cs, [frame |-> i, bars |-> Bars(i)])
    /\ lim' = Limit(Bars(i), orientation)
    /\ texts' = PlotTexts(texts, i)
    /\ last_i' = i
    /\ period_idx' = IF use_index THEN i \div steps_per_period ELSE period_idx

\* ------------------------------------------------------------ the inputs
CellValues == {0, 1}

\* Short tables: one or two rows of up to cmax columns.
ShortTables(cmax) ==
    UNION {[1..r -> [1..c -> CellValues]] : r \in {1, 2}, c \in 1..cmax}

\* Tall tables: up to rmax rows of one or two columns.
TallTables(rmax) ==
    UNION {[1..r -> [1..c -> CellValues]] : r \in 1..rmax, c \in {1, 2}}

\* One table per shape, its cells alternating.
Checkerboards(rmax, cmax) ==
    {[r \in 1..rr |-> [c \in 1..cc |-> (r + c) % 2]] : rr \in 1..rmax, cc \in 1..cmax}

\* One-row tables of zeros, up to cmax columns wide.
WideTables(cmax) == {<<[c \in 1..cc |-> 0]>> : cc \in 1..cmax}

AllNumeric(table) == [j \in 1..NCols(table) |-> TRUE]

Cmaps ==
    {[type |-> "dark24", n |-> 24], [type |-> "other", n |-> 0],
     [type |-> "Colormap", n |-> MaxColors], [type |-> "ndarray", n |-> MaxColors]}
    \cup {[type |-> "list", n |-> n] : n \in 0..MaxColors}

EmptyFrame == [index |-> <<>>, data |-> <<>>]

InitDerived ==
    /\ df_values = EmptyFrame
    /\ df_rank = EmptyFrame
    /\ orig_index = <<>>
    /\ bar_colors = <<>>
    /\ label_pos = <<>>
    /\ data_cols = <<>>
    /\ ax = "unset"
    /\ phase = "new"
    /\ error = "none"
    /\ probed = FALSE

InitAxis ==
    /\ containers = <<>>
    /\ texts = <<>>
    /\ lim = NaN
    /\ last_i = -1
    /\ period_idx = -1
    /\ last_call = "none"
    /\ pos = 0

NoPlots ==
    /\ plots = <<>>
    /\ mpc = "off"
    /\ frames_arg = 0
    /\ next_frame = 0
    /\ ticks = <<>>
    /\ rendered = <<>>

\* The fields a LineChart lacks.
NoBarFields ==
    /\ orientation = "n/a"
    /\ sort = "n/a"
    /\ n_bars = 0
    /\ label_bars = FALSE
    /\ cmap = [type |-> "n/a", n |-> 0]

\* A chart about to be constructed from a valid configuration, played by
\* make_animation: init_func once, then the frames in order.
Init ==
    /\ df \in ShortTables(MaxCols) \cup TallTables(MaxRows)
    /\ dtypes = AllNumeric(df)
    /\ steps_per_period \in 1..MaxSteps
    /\ fig = "None"
    /\ use_index = TRUE
    /\ kind \in {"bar", "line"}
    /\ IF kind = "bar"
       THEN /\ orientation \in {"h", "v"}
            /\ sort \in {"asc", "desc"}
            /\ n_bars \in 0..MaxCols
            /\ label_bars = TRUE
            /\ cmap = [type |-> "dark24", n |-> 24]
       ELSE NoBarFields
    /\ driver = "animation"
    /\ InitDerived /\ InitAxis /\ NoPlots

\* A chart whose callbacks are called in any order.
InitRender ==
    /\ df \in Checkerboards(MaxRows, MaxCols)
    /\ dtypes = AllNumeric(df)
    /\ steps_per_period \in 1..MaxSteps
    /\ fig = "None"
    /\ use_index \in BOOLEAN
    /\ kind \in {"bar", "line"}
    /\ IF kind = "bar"
       THEN /\ orientation \in {"h", "v"}
            /\ sort = "desc"
            /\ n_bars = 0
            /\ label_bars \in BOOLEAN
            /\ cmap = [type |-> "dark24", n |-> 24]
       ELSE NoBarFields
    /\ driver = "free"
    /\ InitDerived /\ InitAxis /\ NoPlots

\* A chart about to be constructed from any configuration, valid or not.
InitConfig ==
    /\ df \in WideTables(MaxWide)
    /\ dtypes \in [1..NCols(df) -> BOOLEAN]
    /\ steps_per_period = 1
    /\ fig \in {"None", "Figure", "other"}
    /\ use_index = TRUE
    /\ kind \in {"bar", "line"}
    /\ IF kind = "bar"
       THEN /\ orientation \in {"h", "v", "d"}
            /\ sort \in {"asc", "desc", "up"}
            /\ n_bars = 0
            /\ label_bars = TRUE
            /\ cmap \in Cmaps
       ELSE NoBarFields
    /\ driver = "animation"
    /\ InitDerived /\ InitAxis /\ NoPlots

\* --------------------------------------------------------------- actions
\* BarChart.__attrs_post_init__.  What pandas makes of a column that is not
\* numeric is the library's business: rank and interpolate either raise or
\* go on with the cells as they compare.
PostInit ==
    /\ phase = "new"
    /\ kind = "bar"
    /\ \E raises \in (IF dtypes = AllNumeric(df) THEN {FALSE} ELSE BOOLEAN) :
         LET nbars == IF n_bars = 0 THEN NCols(df) ELSE n_bars
             prepared == PrepareData(df, steps_per_period, nbars, sort, orientation)
             colors == GetColors(cmap, df)
             err == IF raises THEN "PandasError" ELSE colors.error
         IN  /\ n_bars' = nbars
             /\ probed' = (~raises /\ fig = "None")
             /\ error' = err
             /\ IF err = "none"
                THEN /\ phase' = "built"
                     /\ df_values' = prepared.values
                     /\ df_rank' = prepared.rank
                     /\ orig_index' = [r \in DOMAIN df |-> Str(r - 1)]
                     /\ fig' = (IF fig = "None" THEN "Figure" ELSE fig)
                     /\ ax' = IF fig = "None" THEN "axes" ELSE "unset"
                     /\ label_pos' = GetLabelPosition(sort, orientation)
                     /\ bar_colors' = colors.colors
                ELSE /\ phase' = "failed"
                     /\ UNCHANGED <<df_values, df_rank, orig_index, fig, ax,
                                    label_pos, bar_colors>>
    /\ UNCHANGED <<kind, df, dtypes, use_index, steps_per_period, orientation,
                   sort, label_bars, cmap, data_cols>>
    /\ UNCHANGED <<axisVars, driverVars, multiVars>>

\* LineChart.__attrs_post_init__.
LinePostInit ==
    /\ phase = "new"
    /\ kind = "line"
    /\ LET cols == GetDataCols(df, dtypes)
           err == IF cols.error # "none" THEN cols.error
                  ELSE IF fig = "other" THEN "AttributeError"
                  ELSE "none"
       IN  /\ error' = err
           /\ IF err = "none"
              THEN /\ phase' = "built"
                   /\ data_cols' = cols.cols
                   /\ fig' = "Figure"
                   /\ ax' = "axes"
              ELSE /\ phase' = "failed"
                   /\ data_cols' = cols.cols
                   /\ UNCHANGED <<fig, ax>>
    /\ UNCHANGED <<kind, df, dtypes, use_index, steps_per_period, orientation,
                   sort, n_bars, label_bars, cmap>>
    /\ UNCHANGED <<df_values, df_rank, orig_index, bar_colors, label_pos, probed>>
    /\ UNCHANGED <<axisVars, driverVars, multiVars>>

Renderable == phase = "built" /\ kind = "bar" /\ ax = "axes"

\* BarChart.init_func.
InitFunc ==
    /\ Renderable
    /\ IF driver = "animation" THEN pos = 0 ELSE Len(containers) < MaxContainers
    /\ PlotBars(containers, 0)
    /\ last_call' = "init_func"
    /\ pos' = IF driver = "animation" THEN 1 ELSE pos
    /\ UNCHANGED <<cfgVars, derivedVars, driver, multiVars>>

\* BarChart.anim_func(i).
AnimFunc ==
    /\ Renderable
    /\ \E i \in GetFrames :
         /\ IF driver = "animation" THEN pos = i + 1 ELSE TRUE
         /\ PlotBars(RemoveIterating(containers, 1), i)
    /\ last_call' = "anim_func"
    /\ pos' = IF driver = "animation" THEN pos + 1 ELSE pos
    /\ UNCHANGED <<cfgVars, derivedVars, driver, multiVars>>

Next == PostInit \/ LinePostInit \/ InitFunc \/ AnimFunc

Spec == Init /\ [][Next]_vars
SpecRender == InitRender /\ [][Next]_vars
SpecConfig == InitConfig /\ [][Next]_vars

\* ------------------------------------------------ animate_multiple_plots
\* A plot is taken by the length of its df_values.  ticks lists the frames
\* update_all_graphs has been called with; rendered[k] lists the calls plot
\* k has received: "init", then the frames given to its anim_func.
NoChart ==
    /\ kind = "n/a"
    /\ df = <<>>
    /\ dtypes = <<>>
    /\ use_index = FALSE
    /\ steps_per_period = 1
    /\ fig = "None"
    /\ NoBarFields
    /\ driver = "n/a"
    /\ InitDerived /\ InitAxis

InitMulti ==
    /\ plots \in UNION {[1..n -> 1..MaxFrames] : n \in 1..MaxPlots}
    /\ mpc = "idle"
    /\ frames_arg = 0
    /\ next_frame = 0
    /\ ticks = <<>>
    /\ rendered = [k \in DOMAIN plots |-> <<>>]
    /\ NoChart

\* plot.get_frames() of plot k: range(len(df_values)).
PlotFrames(k) == 0..(plots[k] - 1)

\* min([max(plot.get_frames()) for plot in plots]).
FramesArgument == SetMin({SetMax(PlotFrames(k)) : k \in DOMAIN plots})

\* The frames FuncAnimation makes of an integer argument: range(frames).
FrameRange(n) == 0..(n - 1)

\* update_all_graphs(f): every plot's anim_func(f).
Update(f) ==
    /\ ticks' = Append(ticks, f)
    /\ rendered' = [k \in DOMAIN plots |-> Append(rendered[k], f)]

\* animate_multiple_plots up to the construction of the animation: every
\* plot's init_func, then FuncAnimation over the frames argument.
AnimateMultiplePlots ==
    /\ mpc = "idle"
    /\ rendered' = [k \in DOMAIN plots |-> <<"init">>]
    /\ frames_arg' = FramesArgument
    /\ mpc' = "drawing"
    /\ UNCHANGED <<plots, next_frame, ticks>>
    /\ UNCHANGED <<cfgVars, derivedVars, axisVars, driverVars>>

\* The first draw of an animation without init_func: the library may draw
\* the first frame of the sequence once before playing it.
FirstDraw ==
    /\ mpc = "drawing"
    /\ \E draws \in BOOLEAN :
         IF draws /\ 0 \in FrameRange(frames_arg)
         THEN Update(0)
         ELSE UNCHANGED <<ticks, rendered>>
    /\ mpc' = "running"
    /\ UNCHANGED <<plots, frames_arg, next_frame>>
    /\ UNCHANGED <<cfgVars, derivedVars, axisVars, driverVars>>

\* update_all_graphs(frame), called with the next frame of the range.
UpdateAllGraphs ==
    /\ mpc = "running"
    /\ next_frame \in FrameRange(frames_arg)
    /\ Update(next_frame)
    /\ next_frame' = next_frame + 1
    /\ UNCHANGED <<plots, mpc, frames_arg>>
    /\ UNCHANGED <<cfgVars, derivedVars, axisVars, driverVars>>

\* anim.save returns once the frames are exhausted.
Saved ==
    /\ mpc = "running"
    /\ next_frame \notin FrameRange(frames_arg)
    /\ mpc' = "saved"
    /\ UNCHANGED <<plots, frames_arg, next_frame, ticks, rendered>>
    /\ UNCHANGED <<cfgVars, derivedVars, axisVars, driverVars>>

NextMulti == AnimateMultiplePlots \/ FirstDraw \/ UpdateAllGraphs \/ Saved

SpecMulti == InitMulti /\ [][NextMulti]_vars

\* ---------------------------------------------------------------- claims
BarBuilt == kind = "bar" /\ phase = "built"

\* The two sort x orientation combinations the claims name as inverting.
InvertingCombination ==
    (sort = "desc" /\ orientation = "h") \/ (sort = "asc" /\ orientation = "v")

\* The 1-based position of column j when the row is sorted descending by
\* value, ties by column order, clipped above at n_bars + 1.
NaiveRank(row, j) ==
    IntMin(1 + Cardinality({k \in DOMAIN row : row[k] > row[j]})
             + Cardinality({k \in DOMAIN row : k < j /\ row[k] = row[j]}),
           n_bars + 1)

MinFrameCount == SetMin({plots[k] : k \in DOMAIN plots})

\* C1: once animate_multiple_plots has run, update_all_graphs has been called
\* for the frames 0 .. min-1, min being the least frame count of the plots,
\* and every plot has been given each of them.
C1_TicksAreMinFrameCount ==
    mpc = "saved" =>
      /\ {ticks[p] : p \in DOMAIN ticks} = 0..(MinFrameCount - 1)
      /\ \A k \in DOMAIN plots :
            {rendered[k][p] : p \in DOMAIN rendered[k]} \ {"init"} =
               0..(MinFrameCount - 1)

\* C2 as stated: every rank of the RankFrame lies in [1, n_bars+1].
C2_RankInClosedInterval ==
    BarBuilt =>
      \A p \in DOMAIN df_rank.data : \A j \in DOMAIN df_rank.data[p] :
         /\ RatLE(Rat(1), df_rank.data[p][j])
         /\ RatLE(df_rank.data[p][j], Rat(n_bars + 1))

\* C2, amended: every rank of the RankFrame lies in [1, n_bars+1] under the
\* two combinations that do not invert, and in [0, n_bars] under the two
\* that do.
C2_RankRange ==
    BarBuilt =>
      \A p \in DOMAIN df_rank.data : \A j \in DOMAIN df_rank.data[p] :
         IF InvertingCombination
         THEN /\ RatLE(Rat(0), df_rank.data[p][j])
              /\ RatLE(df_rank.data[p][j], Rat(n_bars))
         ELSE /\ RatLE(Rat(1), df_rank.data[p][j])
              /\ RatLE(df_rank.data[p][j], Rat(n_bars + 1))

\* An inverted RankFrame of a table with columns beyond n_bars + 1, holding
\* a rank 0 and a fractional rank at a sub-step.
C2_Witness ==
    /\ BarBuilt
    /\ InvertingCombination
    /\ NCols(df) > n_bars + 1
    /\ \E p \in DOMAIN df_rank.data : \E j \in DOMAIN df_rank.data[p] :
         RatEq(df_rank.data[p][j], Rat(0))
    /\ \E p \in DOMAIN df_rank.data : \E j \in DOMAIN df_rank.data[p] :
         df_rank.data[p][j][1] % df_rank.data[p][j][2] # 0

\* C3: at the position of every original row, a column's rank is
\* n_bars+1 - naive_rank under the inverting combinations and naive_rank
\* under the other two.
C3_RankInversion ==
    BarBuilt =>
      \A r \in DOMAIN df : \A j \in DOMAIN df[r] :
         RatEq(df_rank.data[(r - 1) * steps_per_period + 1][j],
               Rat(IF InvertingCombination
                   THEN n_bars + 1 - NaiveRank(df[r], j)
                   ELSE NaiveRank(df[r], j)))

\* An inverted RankFrame of a two-row table with a tie in a row and a
\* clipped column.
C3_Witness ==
    /\ BarBuilt
    /\ InvertingCombination
    /\ Len(df) = 2
    /\ steps_per_period = 2
    /\ NCols(df) > n_bars + 1
    /\ df[2][1] = df[2][2]
    /\ df[1][1] < df[1][2]

\* C4: the ValueFrame's index is 0 .. (R-1)*S without gaps, position r*S
\* holds original row r, and the positions between r*S and (r+1)*S hold the
\* linear interpolation of rows r and r+1, column by column.
C4_ValueFrame ==
    BarBuilt =>
      LET R == Len(df)
          S == steps_per_period
      IN  /\ df_values.index = [p \in 1..((R - 1) * S + 1) |-> p - 1]
          /\ Len(df_values.data) = (R - 1) * S + 1
          /\ \A r \in 1..R : \A j \in DOMAIN df[r] :
                df_values.data[(r - 1) * S + 1][j] = <<df[r][j], 1>>
          /\ \A r \in 1..(R - 1) : \A k \in 1..(S - 1) : \A j \in DOMAIN df[r] :
                RatEq(df_values.data[(r - 1) * S + k + 1][j],
                      <<S * df[r][j] + k * (df[r + 1][j] - df[r][j]), S>>)

\* A ValueFrame of five rows made of three rows whose first column rises and
\* then falls.
C4_Witness ==
    /\ BarBuilt
    /\ Len(df) = 3
    /\ steps_per_period = 2
    /\ df[1][1] < df[2][1]
    /\ df[3][1] < df[2][1]
    /\ Len(df_values.data) = 5

\* C5: a BarChart given an invalid sort, orientation, fig or cmap has failed
\* once construction is over, and the probe render has not run.
C5_InvalidConfigFailsBeforeRender ==
    (/\ kind = "bar"
     /\ phase # "new"
     /\ (ValidateParams(fig, sort, orientation) # "none"
           \/ BaseGetColors(cmap).error # "none"))
      => (phase = "failed" /\ ~probed)

\* C6: get_colors returns one colour per column: column j has the supplied
\* colour j mod n when the n supplied colours are fewer than the columns,
\* and the supplied colour j otherwise.
C6_ColorPerColumn ==
    BarBuilt =>
      LET n == IF cmap.type = "dark24" THEN 24 ELSE cmap.n
          ncols == NCols(df)
      IN  /\ Len(bar_colors) = ncols
          /\ \A j \in 0..(ncols - 1) :
                bar_colors[j + 1] = IF n < ncols THEN j % n ELSE j

\* Three supplied colours on five columns: c0, c1, c2, c0, c1.
C6_Witness ==
    /\ BarBuilt
    /\ cmap = [type |-> "list", n |-> 3]
    /\ NCols(df) = 5
    /\ bar_colors = <<0, 1, 2, 0, 1>>

\* C7: a chart of a table without numeric columns has failed with the
\* no-numeric-columns error, and a constructed chart keeps the numeric
\* columns only, a BarChart as well as a LineChart.
C7_OnlyNumericColumns ==
    LET numeric == {j \in 1..NCols(df) : dtypes[j]}
    IN  /\ (phase # "new" /\ numeric = {}) =>
              (phase = "failed" /\ error = "NoNumericColumns")
        /\ (phase = "built" /\ kind = "line") =>
              {data_cols[p] : p \in DOMAIN data_cols} = {Str(j) : j \in numeric}
        /\ BarBuilt =>
              \A p \in DOMAIN df_values.data :
                 Len(df_values.data[p]) = Cardinality(numeric)

\* C8: after anim_func(i) the axis holds one bar container, that of frame i.
C8_OneContainerAfterAnimFunc ==
    last_call = "anim_func" =>
      (Len(containers) = 1 /\ containers[1].frame = last_i)

PeriodTexts == {p \in DOMAIN texts : texts[p].site = "period"}

\* C9: with use_index, once a frame has been drawn the axis holds one period
\* label, it is the first text, it reads orig_index[i // steps_per_period]
\* for the last frame i, and that position is one of the table's rows.
C9_OnePeriodLabel ==
    (BarBuilt /\ use_index /\ last_call # "none") =>
      /\ PeriodTexts = {1}
      /\ period_idx = last_i \div steps_per_period
      /\ period_idx \in 0..(Len(df) - 1)
      /\ texts[1].s = orig_index[period_idx + 1]
      /\ orig_index[period_idx + 1] = Str(period_idx)

\* init_func twice and then a frame of the second row, with bar labels
\* redrawn beside the period label.
C9_Witness ==
    /\ BarBuilt
    /\ use_index
    /\ label_bars
    /\ last_call = "anim_func"
    /\ Len(containers) = 2
    /\ steps_per_period = 2
    /\ last_i = 3
    /\ Len(texts) > 1
    /\ texts[1].s = Str(1)

\* The rank a drawn bar's column has in the frame of its container.
BarsInsideRange(c) ==
    \A b \in DOMAIN c.bars :
       /\ RatLT(Rat(0), df_rank.data[c.frame + 1][c.bars[b].col])
       /\ RatLT(df_rank.data[c.frame + 1][c.bars[b].col], Rat(n_bars + 1))

\* C10 as stated: every frame, the sub-step frames included, draws columns
\* of rank strictly between 0 and n_bars+1 only, and at most n_bars bars.
C10_AtMostNBarsEveryFrame ==
    BarBuilt =>
      \A c \in DOMAIN containers :
         BarsInsideRange(containers[c]) /\ Len(containers[c].bars) <= n_bars

\* C10, amended: every frame draws columns of rank strictly between 0 and
\* n_bars+1 only; the frame of an original row draws at most n_bars bars.
C10_DrawnBars ==
    BarBuilt =>
      \A c \in DOMAIN containers :
         /\ BarsInsideRange(containers[c])
         /\ containers[c].frame % steps_per_period = 0 =>
               Len(containers[c].bars) <= n_bars

\* A sub-step frame drawn from a table with more columns than n_bars: it
\* leaves a column out and still draws more than n_bars bars.
C10_Witness ==
    /\ BarBuilt
    /\ NCols(df) > n_bars
    /\ Len(containers) = 1
    /\ containers[1].frame % steps_per_period # 0
    /\ Len(containers[1].bars) > n_bars
    /\ Len(containers[1].bars) < NCols(df)

=============================================================================
